---- MODULE Spec2Model ----
(***************************************************************************)
(* The notebook document engine of src/index.tsx: the cell store, the      *)
(* execution engine (runCell, runAllCells, restartKernel), the staleness   *)
(* marks, the clipboard, and the persisted text format                     *)
(* (parseNotebookFile, downloadNotebook).                                  *)
(*                                                                         *)
(* One step of the engine is one task of the browser's event loop: a user  *)
(* event or the completion of an awaited network call, together with the   *)
(* promise continuations it triggers, up to the next real suspension.      *)
(***************************************************************************)
EXTENDS Integers, Sequences, FiniteSets, TLC

\* ---------------------------------------------------------------- bounds
\* cells created in one behaviour (the values cellCounter takes)
MaxCells == 2
\* code-cell runs suspended on an awaited capability at the same time
MaxInFlight == 2
\* user events in one behaviour
MaxOps == 3
\* user events before the initial load has ended
MaxEarlyOps == 1

\* ------------------------------------------------------------ JS values
Undef == "undefined"
NoCell == 0 - 1
\* an element of cells that is undefined (spliced in by onEnd)
Hole == 0 - 2
\* children of the notebook element that are not elements of cells
CopyrightEl == 0 - 3
InserterEl == 0 - 4
\* the message of the TypeError raised by reading .id or .type of undefined
TypeErrorMessage == "Cannot read properties of undefined"

\* ------------------------------------------------- scripts (cell texts)
\* The text of a cell is opaque to the engine, which only compares it and
\* runs it. Each text below stands for one script source:
\*   ""      (empty)
\*   "slow"  console.log('a'); await fetch(u); persistentScope.x = 1; console.log('b')
\*   "get"   console.log(persistentScope.x)
\*   "throw" throw new Error('e')
\*   "sym"   throw Symbol()
\*   "bad"   (          -- not a function body: new AsyncFunction throws
Texts == {"", "slow", "get", "throw", "sym", "bad"}

\* the texts the user types into an editor
Typed == {"get", "bad"}

Compiles(code) == code # "bad"

Script(code) ==
  CASE code = "slow" -> << [op |-> "log", data |-> "a"],
                           [op |-> "await"],
                           [op |-> "write", key |-> "x", val |-> "1"],
                           [op |-> "log", data |-> "b"] >>
    [] code = "get" -> << [op |-> "read", key |-> "x"] >>
    [] code = "throw" -> << [op |-> "throw", data |-> "Error: e"] >>
    [] code = "sym" -> << [op |-> "throwSym",
                           data |-> "Cannot convert a Symbol value to a string"] >>
    [] OTHER -> << >>

\* what the script of a text does when it fails: "none", "runtime", "compile"
Failure(code) ==
  IF ~Compiles(code) THEN "compile"
  ELSE IF code \in {"throw", "sym"} THEN "runtime"
  ELSE "none"

\* ---------------------------------------------------------------- state
VARIABLES
  cells,            \* the store: ids of the Cell objects, in document order
  cellObj,          \* the Cell objects, by id
  arrays,           \* the Output[] arrays the objects' outputs fields refer to
  monacoInstances,  \* id -> text of the cell's editor
  cellCounter,
  cellClipboard,    \* <<>> (null) or <<[cellData, code]>>
  focusedCellId,
  persistentScope,  \* own keys -> value
  runs,             \* runCell invocations suspended inside their script
  runAlls,          \* runAllCells invocations awaiting a runCell
  timers,           \* ids with a pending setTimeout(() => runCell(id), 0)
  children,         \* notebook.children: the elements, a cell's by its id
  loaded,           \* the initial load of the notebook has ended
  finished,         \* history: the code-cell runs that completed in the last step
  finishedAll,      \* history: the run-alls that ended in the last step
  observed,         \* history: the scope reads of the last step
  written,          \* history: the scope writes since the last restart
  ops,              \* history: number of user events so far
  raised,           \* history: the last step ended by an exception nothing caught
  rtCells,          \* format check: the cells handed to downloadNotebook
  rtContent,        \* format check: the content of the downloaded file
  rtParsed,         \* format check: parseNotebookFile's result for rtContent
  rtPhase,          \* format check: "off", "cells", "content" or "parsed"
  rtBlocks          \* format check: the blocks a parsed file was written from

vars == << cells, cellObj, arrays, monacoInstances, cellCounter, cellClipboard,
           focusedCellId, persistentScope, runs, runAlls, timers, children, loaded,
           finished, finishedAll, observed, written, ops, raised,
           rtCells, rtContent, rtParsed, rtPhase, rtBlocks >>

engineVars == << cells, cellObj, arrays, monacoInstances, cellCounter, cellClipboard,
                 focusedCellId, persistentScope, runs, runAlls, timers, children, loaded,
                 finished, finishedAll, observed, written, ops, raised >>

formatVars == << rtCells, rtContent, rtParsed, rtPhase, rtBlocks >>

\* the state as one record, threaded through the operations of a step
Cur ==
  [ cells |-> cells, obj |-> cellObj, arr |-> arrays, monaco |-> monacoInstances,
    counter |-> cellCounter, clip |-> cellClipboard, focus |-> focusedCellId,
    scope |-> persistentScope, runs |-> runs, ras |-> runAlls, timers |-> timers,
    dom |-> children,
    fin |-> << >>, finAll |-> << >>, obs |-> {}, wr |-> written,
    ret |-> [kind |-> "resolved", rid |-> 0] ]

Range(s) == { s[i] : i \in 1..Len(s) }

InStore(E, id) == id \in Range(E.cells)

\* cells.find / cells.findIndex((c) => c.id === id) reaches an undefined
\* element before a match and raises a TypeError
FindThrows(E, id) ==
  \E p \in 1..Len(E.cells) :
    E.cells[p] = Hole /\ \A q \in 1..(p - 1) : E.cells[q] # id

\* how the call in progress ends: "resolved", "pending" or "rejected"
Ok(E) == [E EXCEPT !.ret = [kind |-> "resolved", rid |-> 0]]

Thrown(E) == [E EXCEPT !.ret = [kind |-> "rejected", rid |-> 0]]

Threw(E) == E.ret.kind = "rejected"

\* updateOutputToggle(cellId, ...): only its look-up of the cell is state
UpdateOutputToggle(E, cellId) == IF FindThrows(E, cellId) THEN Thrown(E) ELSE E

IndexOf(E, id) ==
  IF InStore(E, id) THEN CHOOSE i \in 1..Len(E.cells) : E.cells[i] = id ELSE 0

\* first free key of a table
Fresh(f) == CHOOSE n \in 1..(Cardinality(DOMAIN f) + 1) : n \notin DOMAIN f

Put(f, k, v) == [ x \in DOMAIN f \cup {k} |-> IF x = k THEN v ELSE f[x] ]

Drop(f, k) == [ x \in DOMAIN f \ {k} |-> f[x] ]

Outputs(E, id) == E.arr[E.obj[id].outputs]

\* ------------------------------------------------------ staleness marks
MarkCellAsExecuted(E, cellId, content) ==
  IF FindThrows(E, cellId) THEN Thrown(E)
  ELSE IF InStore(E, cellId)
  THEN [E EXCEPT !.obj[cellId].isExecuted = "true",
                 !.obj[cellId].lastExecutedContent = content]
  ELSE E

\* a variant that also empties and hides the cell's outputs
MarkCellAsUnexecuted_DropsOutputs(E, cellId) ==
  IF FindThrows(E, cellId) THEN Thrown(E)
  ELSE IF InStore(E, cellId)
  THEN [E EXCEPT !.obj[cellId].isExecuted = "false",
                 !.obj[cellId].lastExecutedContent = Undef,
                 !.obj[cellId].isOutputVisible = FALSE,
                 !.arr[E.obj[cellId].outputs] = << >>]
  ELSE E

MarkCellAsUnexecuted(E, cellId) ==
  IF FindThrows(E, cellId) THEN Thrown(E)
  ELSE IF InStore(E, cellId)
  THEN [E EXCEPT !.obj[cellId].isExecuted = "false",
                 !.obj[cellId].lastExecutedContent = Undef]
  ELSE E

CheckContentChanged(E, cellId, currentContent) ==
  \/ ~InStore(E, cellId)
  \/ E.obj[cellId].isExecuted # "true"
  \/ E.obj[cellId].lastExecutedContent # currentContent

\* ----------------------------------------------------- execution engine
\* sandboxConsole.log / .error of the run rid: push on the array the cell
\* object refers to now, then showOutput
SandboxPush(E, rid, out) ==
  LET id == E.runs[rid].cell
  IN UpdateOutputToggle(
       [E EXCEPT !.arr[E.obj[id].outputs] = Append(@, out),
                 !.obj[id].isOutputVisible = TRUE,
                 !.runs[rid].appended = Append(@, out)], id)

ConsoleLog(E, rid, text) == SandboxPush(E, rid, [type |-> "log", data |-> text])

ConsoleError(E, rid, text) == SandboxPush(E, rid, [type |-> "error", data |-> text])

\* the scope object handed to the script
ScopeGet(scope, key) == IF key \in DOMAIN scope THEN scope[key] ELSE Undef

\* a variant in which a run starts from a scope of its own
ScopeRead_OwnScope(E, key) == Undef

ScopeRead(E, key) == ScopeGet(E.scope, key)

ScopeWrite(E, key, val) ==
  [E EXCEPT !.scope = Put(@, key, val), !.wr = Put(@, key, val)]

\* the catch of the wrapper around the script: console.error(e); when that
\* call raises too, fn rejects
WrapperCatch(E, rid, data) ==
  LET E1 == ConsoleError(Ok(E), rid, data)
  IN IF Threw(E1)
     THEN [Ok(E1) EXCEPT !.runs[rid].status = "threw",
                         !.runs[rid].message = TypeErrorMessage]
     ELSE [E1 EXCEPT !.runs[rid].status = "returned"]

\* console.log(text) in the script: an exception of the call is caught by
\* the wrapper
ScriptLog(E, rid, text) ==
  LET E1 == ConsoleLog(E, rid, text)
  IN IF Threw(E1) THEN WrapperCatch(E1, rid, "TypeError: " \o TypeErrorMessage)
     ELSE E1

\* the script body of run rid, from its position to its next await or its end
RECURSIVE ExecScript(_, _)
ExecScript(E, rid) ==
  LET run == E.runs[rid]
      body == Script(run.code)
  IN IF run.status # "running" THEN E
     ELSE IF run.pc > Len(body)
     THEN [E EXCEPT !.runs[rid].status = "returned"]
     ELSE
       LET o == body[run.pc]
           E1 == [E EXCEPT !.runs[rid].pc = @ + 1]
       IN CASE o.op = "await" -> [E1 EXCEPT !.runs[rid].status = "suspended"]
            [] o.op = "log" -> ExecScript(ScriptLog(E1, rid, o.data), rid)
            [] o.op = "write" -> ExecScript(ScopeWrite(E1, o.key, o.val), rid)
            [] o.op = "read" ->
                 LET v == ScopeRead(E1, o.key)
                     E2 == [E1 EXCEPT !.obs = @ \cup
                              {[key |-> o.key, seen |-> v,
                                expected |-> ScopeGet(E1.wr, o.key)]}]
                 IN ExecScript(ScriptLog(E2, rid, v), rid)
            \* caught by the try/catch wrapped around the code: console.error(e)
            [] o.op = "throw" -> WrapperCatch(E1, rid, o.data)
            \* console.error(e) itself throws in the wrapper's catch: fn rejects
            [] o.op = "throwSym" ->
                 [E1 EXCEPT !.runs[rid].status = "threw", !.runs[rid].message = o.data]

\* runCell after `await fn(...)`: still suspended, or the try/catch of
\* lines 675-687 and the end of the invocation
Settle(E, rid) ==
  LET run == E.runs[rid]
  IN IF run.status = "suspended"
     THEN [E EXCEPT !.ret = [kind |-> "pending", rid |-> rid]]
     ELSE
       LET \* the try block after fn
           T == IF run.status = "threw" THEN Thrown(E)
                ELSE MarkCellAsExecuted(Ok(E), run.cell, run.code)
           \* the catch block
           message == IF run.status = "threw" THEN run.message ELSE TypeErrorMessage
           C1 == ConsoleError(Ok(T), rid, "Uncaught: " \o message)
           C2 == IF Threw(C1) THEN C1 ELSE MarkCellAsExecuted(C1, run.cell, run.code)
           E2 == IF Threw(T) THEN C2 ELSE T
       IN [E2 EXCEPT
             !.runs = Drop(@, rid),
             !.fin = Append(@, [cell |-> run.cell, code |-> run.code,
                                appended |-> E2.runs[rid].appended,
                                outcome |-> E2.ret.kind, ra |-> run.ra])]

\* a variant that records the rendered text as an output of the cell
ToggleMd_PushesOutput(E, cellId) ==
  [E EXCEPT !.obj[cellId].mode = IF @ = "edit" THEN "render" ELSE "edit",
            !.arr[E.obj[cellId].outputs] =
               Append(@, [type |-> "log", data |-> E.monaco[cellId]]),
            !.ret = [kind |-> "resolved", rid |-> 0]]

\* a text cell's run: the edit/render toggle
ToggleMd(E, cellId) ==
  IF E.obj[cellId].mode = "edit"
  THEN [E EXCEPT !.obj[cellId].mode = "render",
                 !.obj[cellId].isOutputVisible = TRUE,
                 !.ret = [kind |-> "resolved", rid |-> 0]]
  ELSE [E EXCEPT !.obj[cellId].mode = "edit",
                 !.obj[cellId].isOutputVisible = FALSE,
                 !.focus = cellId,      \* editor.focus() raises onDidFocusEditorText
                 !.ret = [kind |-> "resolved", rid |-> 0]]

\* new AsyncFunction(...) throws: the invocation ends by rejecting
CompileReject(E, cellId, code, ra) ==
  [E EXCEPT !.fin = Append(@, [cell |-> cellId, code |-> code, appended |-> << >>,
                               outcome |-> "rejected", ra |-> ra]),
            !.ret = [kind |-> "rejected", rid |-> 0]]

\* runCell(cellId), called by the run-all ra (0: by a user event or a timer),
\* up to its first suspension
RunCell(E, cellId, ra) ==
  IF FindThrows(E, cellId)
  THEN IF InStore(E, cellId) /\ E.obj[cellId].type = "js"
       THEN [Thrown(E) EXCEPT
               !.fin = Append(@, [cell |-> cellId, code |-> E.monaco[cellId],
                                  appended |-> << >>, outcome |-> "rejected",
                                  ra |-> ra])]
       ELSE Thrown(E)
  ELSE IF ~InStore(E, cellId)
  THEN [E EXCEPT !.ret = [kind |-> "resolved", rid |-> 0]]
  ELSE IF E.obj[cellId].type = "md" THEN ToggleMd(E, cellId)
  ELSE
    LET code == E.monaco[cellId]
        a == Fresh(E.arr)
        E1 == [E EXCEPT !.arr = Put(@, a, << >>), !.obj[cellId].outputs = a]
    IN IF ~Compiles(code) THEN CompileReject(E1, cellId, code, ra)
       ELSE
         LET rid == Fresh(E1.runs)
             E2 == [E1 EXCEPT !.runs = Put(@, rid,
                      [cell |-> cellId, code |-> code, pc |-> 1, ra |-> ra,
                       appended |-> << >>, status |-> "running", message |-> "",
                       \* history: the run was in flight at a restart
                       old |-> FALSE])]
         IN Settle(ExecScript(E2, rid), rid)

\* the for-of loop of runAllCells, invocation k, from its iterator's position
RECURSIVE RunAllLoop(_, _)
RunAllLoop(E, k) ==
  LET ra == E.ras[k]
  IN IF ra.idx > Len(E.cells)
     THEN [E EXCEPT !.ras = Drop(@, k),
                    !.finAll = Append(@, [log |-> ra.log, outcome |-> "done",
                                          clean |-> ra.clean,
                                          start |-> ra.start])]
     ELSE
       LET id == E.cells[ra.idx]
           E1 == [E EXCEPT !.ras[k].idx = @ + 1]
       IN IF id = Hole
          \* cell.type of undefined
          THEN [Thrown(E) EXCEPT !.ras = Drop(@, k),
                                 !.finAll = Append(@, [log |-> ra.log,
                                                       outcome |-> "rejected",
                                                       clean |-> ra.clean,
                                                       start |-> ra.start])]
          ELSE IF E1.obj[id].type = "md" THEN RunAllLoop(E1, k)
          ELSE
            LET E2 == RunCell([E1 EXCEPT !.ras[k].log =
                                Append(@, [cell |-> id, code |-> E1.monaco[id]])],
                             id, k)
            IN CASE E2.ret.kind = "resolved" -> RunAllLoop(E2, k)
                 [] E2.ret.kind = "pending" -> E2
                 \* the awaited runCell rejected: runAllCells rejects too
                 [] OTHER ->
                      [E2 EXCEPT !.ras = Drop(@, k),
                                 !.finAll = Append(@, [log |-> E2.ras[k].log,
                                                       outcome |-> "rejected",
                                                       clean |-> ra.clean,
                                                       start |-> ra.start])]

RunAllCells(E) ==
  LET k == Fresh(E.ras)
  IN RunAllLoop([E EXCEPT !.ras = Put(@, k,
                   [idx |-> 1, log |-> << >>, clean |-> TRUE,
                    \* history: the code cells in the store at the start
                    start |-> { id \in Range(E.cells) \ {Hole} :
                                  E.obj[id].type = "js" }])], k)

\* the awaited capability of run rid completes: the script goes on, and when
\* the invocation ends the run-all awaiting it goes on too
ResumeRun(E, rid) ==
  LET ra == E.runs[rid].ra
      E1 == Settle(ExecScript([E EXCEPT !.runs[rid].status = "running"], rid), rid)
  IN IF ra = 0 \/ E1.ret.kind = "pending" THEN E1
     ELSE IF E1.ret.kind = "resolved" THEN RunAllLoop(E1, ra)
     \* the awaited runCell rejected: runAllCells rejects too
     ELSE [E1 EXCEPT !.ras = Drop(@, ra),
                     !.finAll = Append(@, [log |-> E1.ras[ra].log,
                                           outcome |-> "rejected",
                                           clean |-> E1.ras[ra].clean,
                                           start |-> E1.ras[ra].start])]

\* the body of restartKernel after the confirm, shared with restartAndRunAll
Restart(E) ==
  LET \* cells.forEach goes up to the first undefined element, where it raises
      upto == IF Hole \in Range(E.cells)
              THEN (CHOOSE p \in 1..Len(E.cells) :
                      E.cells[p] = Hole /\ \A q \in 1..(p - 1) : E.cells[q] # Hole) - 1
              ELSE Len(E.cells)
      js == { id \in Range(SubSeq(E.cells, 1, upto)) : E.obj[id].type = "js" }
      \* one fresh array per code cell
      ref == [ id \in js |->
                 CHOOSE n \in 1..(Cardinality(DOMAIN E.arr) + Len(E.cells)) :
                   /\ n \notin DOMAIN E.arr
                   /\ Cardinality({ m \in 1..n : m \notin DOMAIN E.arr }) = IndexOf(E, id) ]
  IN [(IF upto < Len(E.cells) THEN Thrown(E) ELSE E) EXCEPT
        !.scope = << >>,
        !.wr = << >>,
        !.runs = [ r \in DOMAIN E.runs |-> [E.runs[r] EXCEPT !.old = TRUE] ],
        !.arr = [ n \in DOMAIN E.arr \cup { ref[id] : id \in js } |->
                    IF n \in DOMAIN E.arr THEN E.arr[n] ELSE << >> ],
        !.obj = [ id \in DOMAIN E.obj |->
                    IF id \in js THEN [E.obj[id] EXCEPT !.outputs = ref[id]]
                    ELSE E.obj[id] ]]

RestartAndRunAll(E) ==
  LET E1 == Restart(E)
  IN IF Threw(E1) THEN E1 ELSE RunAllCells(E1)

\* ----------------------------------------------------------- cell store
\* cells.splice(index, 0, id), index counted from 0 as in the source
Splice(seq, index, id) ==
  LET i == IF index > Len(seq) THEN Len(seq) ELSE index
  IN SubSeq(seq, 1, i) \o << id >> \o SubSeq(seq, i + 1, Len(seq))

RemoveAt(seq, i) == SubSeq(seq, 1, i - 1) \o SubSeq(seq, i + 1, Len(seq))

\* ---------------------------------------------------- the notebook element
\* the next sibling of a child, NoCell (null) when there is none
NextSibling(dom, el) ==
  IF \E i \in 1..(Len(dom) - 1) : dom[i] = el
  THEN dom[1 + CHOOSE i \in 1..(Len(dom) - 1) : dom[i] = el]
  ELSE NoCell

\* notebook.insertBefore(el, ref): ref is a child or NoCell (null)
InsertBefore(dom, el, ref) ==
  LET child == IF ref = el THEN NextSibling(dom, el) ELSE ref
      rest == SelectSeq(dom, LAMBDA e : e # el)
  IN IF child = NoCell THEN Append(rest, el)
     ELSE LET i == CHOOSE k \in 1..Len(rest) : rest[k] = child
          IN SubSeq(rest, 1, i - 1) \o << el >> \o SubSeq(rest, i, Len(rest))

\* notebook.getElementsByClassName('cell')[index], index counted from 0
CellElementAt(dom, index) ==
  LET cellElements == SelectSeq(dom, LAMBDA e : e # InserterEl)
  IN IF index + 1 \in 1..Len(cellElements) THEN cellElements[index + 1] ELSE NoCell

\* notebook.children[index], index counted from 0
ChildAt(dom, index) == IF index + 1 \in 1..Len(dom) THEN dom[index + 1] ELSE NoCell

\* a store mutation seen by the run-alls in flight (history)
Touch(E) == [E EXCEPT !.ras = [ k \in DOMAIN @ |-> [@[k] EXCEPT !.clean = FALSE] ]]

\* addCell(code, type, preRender, outputs, index): outputs is an array
\* reference, index is NoCell when the argument is left out
AddCell(E, code, type, preRender, outputs, index) ==
  LET cellId == E.counter
      newCellData ==
        [ id |-> cellId, type |-> type,
          mode |-> IF type = "md" THEN "edit" ELSE Undef,
          outputs |-> outputs,
          isOutputVisible |-> IF type = "js" THEN Len(E.arr[outputs]) > 0
                              ELSE preRender,
          isExecuted |-> Undef, lastExecutedContent |-> Undef ]
      \* the look-up of the new cell by updateOutputToggle raises: an
      \* undefined element comes before the place of the new cell
      throws == \E p \in 1..Len(E.cells) :
                  E.cells[p] = Hole /\ (index = NoCell \/ p <= index)
  IN [Touch(E) EXCEPT
        !.counter = @ + 1,
        !.monaco = Put(@, cellId, code),
        !.obj = Put(@, cellId, newCellData),
        !.dom = IF index # NoCell
                THEN InsertBefore(@, cellId, CellElementAt(@, index))
                ELSE Append(@, cellId),
        !.cells = IF index # NoCell THEN Splice(@, index, cellId)
                  ELSE Append(@, cellId),
        \* updateOutputToggle(cellId, ...) comes before the setTimeout
        !.timers = IF type = "md" /\ preRender /\ ~throws THEN @ \cup {cellId} ELSE @,
        !.ret = [kind |-> IF throws THEN "rejected" ELSE "resolved", rid |-> 0]]

\* addCell called with a new array literal holding `contents`
AddCellNew(E, code, type, preRender, contents, index) ==
  LET a == Fresh(E.arr)
  IN AddCell([E EXCEPT !.arr = Put(@, a, contents)], code, type, preRender, a, index)

DeleteCell(E, cellId) ==
  IF FindThrows(E, cellId) THEN Thrown(E)
  ELSE IF InStore(E, cellId)
  THEN [Touch(E) EXCEPT !.cells = RemoveAt(@, IndexOf(E, cellId)),
                        !.dom = SelectSeq(@, LAMBDA e : e # cellId),
                        !.monaco = Drop(@, cellId)]
  ELSE E

MoveCell(E, cellId, direction) ==
  LET cellIndex == IndexOf(E, cellId)
      newIndex == IF direction = "up" THEN cellIndex - 1 ELSE cellIndex + 1
  IN IF FindThrows(E, cellId) THEN Thrown(E)
     ELSE IF cellIndex = 0 \/ newIndex < 1 \/ newIndex > Len(E.cells) THEN E
     ELSE [Touch(E) EXCEPT
             !.cells = Splice(RemoveAt(@, cellIndex), newIndex - 1, cellId),
             \* siblingElement is notebook.children[newIndex]
             !.dom = IF direction = "up"
                     THEN InsertBefore(@, cellId, ChildAt(@, newIndex - 1))
                     ELSE InsertBefore(@, cellId,
                                       NextSibling(@, ChildAt(@, newIndex - 1)))]

\* Sortable's onEnd, indices counted from 0
OnEnd(E, oldIndex, newIndex) ==
  IF oldIndex # newIndex
  THEN IF oldIndex < Len(E.cells)
       THEN [Touch(E) EXCEPT
               !.cells = Splice(RemoveAt(@, oldIndex + 1), newIndex,
                                E.cells[oldIndex + 1])]
       \* splice(oldIndex, 1) removes nothing: movedItem is undefined
       ELSE [Touch(E) EXCEPT !.cells = Splice(@, newIndex, Hole)]
  ELSE E

\* a drop: Sortable has moved the child at oldIndex to newIndex, then onEnd
SortableDrop(E, oldIndex, newIndex) ==
  OnEnd([E EXCEPT !.dom = Splice(RemoveAt(@, oldIndex + 1), newIndex,
                                 E.dom[oldIndex + 1])],
        oldIndex, newIndex)

\* getFocusedCell: <<the state after the call, the cell's id or NoCell>>
GetFocusedCell(E) ==
  IF E.focus # NoCell
  THEN IF FindThrows(E, E.focus) THEN << Thrown(E), NoCell >>
       ELSE << E, IF InStore(E, E.focus) THEN E.focus ELSE NoCell >>
  ELSE IF Len(E.cells) > 0
  THEN IF E.cells[1] = Hole THEN << Thrown(E), NoCell >>
       ELSE << [E EXCEPT !.focus = E.cells[1]], E.cells[1] >>
  ELSE << E, NoCell >>

\* ------------------------------------------------------------ clipboard
Snapshot(E, id) == << [cellData |-> E.obj[id], code |-> E.monaco[id]] >>

CutCell(E) ==
  LET g == GetFocusedCell(E)
  IN IF g[2] = NoCell THEN g[1]
     ELSE DeleteCell([g[1] EXCEPT !.clip = Snapshot(g[1], g[2])], g[2])

CopyCell(E) ==
  LET g == GetFocusedCell(E)
  IN IF g[2] = NoCell THEN g[1]
     ELSE [g[1] EXCEPT !.clip = Snapshot(g[1], g[2])]

PasteCell(E) ==
  IF E.clip = << >> THEN E
  ELSE
    LET g == GetFocusedCell(E)
        insertIndex == IF g[2] # NoCell THEN IndexOf(g[1], g[2]) ELSE Len(E.cells)
        c == E.clip[1]
    IN IF Threw(g[1]) THEN g[1]
       ELSE AddCell(g[1], c.code, c.cellData.type,
                    c.cellData.type = "md" /\ c.cellData.mode = "render",
                    c.cellData.outputs, insertIndex)

InsertCellAbove(E, type) ==
  LET g == GetFocusedCell(E)
      insertIndex == IF g[2] # NoCell THEN IndexOf(g[1], g[2]) - 1 ELSE 0
  IN IF Threw(g[1]) THEN g[1]
     ELSE AddCellNew(g[1], "", type, FALSE, << >>, insertIndex)

InsertCellBelow(E, type) ==
  LET g == GetFocusedCell(E)
      insertIndex == IF g[2] # NoCell THEN IndexOf(g[1], g[2]) ELSE Len(E.cells)
  IN IF Threw(g[1]) THEN g[1]
     ELSE AddCellNew(g[1], "", type, FALSE, << >>, insertIndex)

\* the editor's onDidChangeModelContent, after the text became currentContent
OnDidChangeModelContent(E, cellId, currentContent) ==
  LET E1 == [E EXCEPT !.monaco[cellId] = currentContent]
  IN IF FindThrows(E1, cellId) THEN Thrown(E1)
     ELSE IF CheckContentChanged(E1, cellId, currentContent)
     THEN MarkCellAsUnexecuted(E1, cellId)
     ELSE E1

\* ----------------------------------------------------------------- load
\* the documents the remote source may hold, as parseNotebookFile's result
Notebooks ==
  { << >>,
    << [type |-> "js", code |-> "slow", mode |-> Undef, outputs |-> << >>],
       [type |-> "js", code |-> "get", mode |-> Undef, outputs |-> << >>] >>,
    << [type |-> "js", code |-> "bad", mode |-> Undef, outputs |-> << >>],
       [type |-> "js", code |-> "get", mode |-> Undef,
        outputs |-> << [type |-> "log", data |-> "1"] >>] >>,
    << [type |-> "md", code |-> "get", mode |-> "render"],
       [type |-> "js", code |-> "throw", mode |-> Undef, outputs |-> << >>] >>,
    << [type |-> "js", code |-> "sym", mode |-> Undef, outputs |-> << >>] >>,
    << [type |-> "md", code |-> "get", mode |-> "render"] >> }

RECURSIVE LoadCells(_, _)
LoadCells(E, cellsData) ==
  IF cellsData = << >> THEN E
  ELSE LET d == Head(cellsData)
       IN LoadCells(AddCellNew(E, d.code, d.type, d.mode = "render",
                               IF d.type = "js" THEN d.outputs ELSE << >>, NoCell),
                    Tail(cellsData))

\* the end of the initial load: fetchOk is response.ok of the fetch
LoadNotebook(E, fetchOk, cellsData) ==
  IF ~fetchOk \/ Len(cellsData) = 0
  THEN AddCellNew(E, "", "js", FALSE, << >>, NoCell)
  ELSE LoadCells(E, cellsData)

\* ------------------------------------------------------------ the steps
\* Objects and arrays nothing refers to any more are dropped, and the arrays
\* left are numbered in the order of the cells that refer to them.
LiveIds(E) ==
  (Range(E.cells) \ {Hole}) \cup { E.runs[r].cell : r \in DOMAIN E.runs }
    \cup { E.fin[i].cell : i \in 1..Len(E.fin) }

LiveRefs(E, ids) ==
  { E.obj[id].outputs : id \in ids }
    \cup { E.clip[i].cellData.outputs : i \in 1..Len(E.clip) }

\* the least id whose object refers to the array (the counter: the clipboard only)
RefKey(E, ids, refs) ==
  [ a \in refs |->
      IF \E id \in ids : E.obj[id].outputs = a
      THEN CHOOSE id \in ids :
             /\ E.obj[id].outputs = a
             /\ \A j \in ids : E.obj[j].outputs = a => id <= j
      ELSE E.counter ]

RefRank(refs, key) ==
  [ a \in refs |-> 1 + Cardinality({ b \in refs : key[b] < key[a] }) ]

Renumber(E, ids, refs, rank) ==
  [E EXCEPT
     !.obj = [ id \in ids |-> [E.obj[id] EXCEPT !.outputs = rank[@]] ],
     !.arr = [ n \in 1..Cardinality(refs) |->
                 E.arr[CHOOSE a \in refs : rank[a] = n] ],
     !.clip = [ i \in 1..Len(E.clip) |->
                  [E.clip[i] EXCEPT !.cellData.outputs = rank[@]] ]]

Commit(E) ==
  /\ cells' = E.cells
  /\ cellObj' = E.obj
  /\ arrays' = E.arr
  /\ monacoInstances' = E.monaco
  /\ cellCounter' = E.counter
  /\ cellClipboard' = E.clip
  /\ focusedCellId' = E.focus
  /\ persistentScope' = E.scope
  /\ runs' = E.runs
  /\ runAlls' = E.ras
  /\ timers' = E.timers
  /\ children' = E.dom
  /\ finished' = E.fin
  /\ finishedAll' = E.finAll
  /\ observed' = E.obs
  /\ written' = E.wr
  /\ raised' = Threw(E)
  /\ UNCHANGED formatVars

Created == 0..(cellCounter - 1)

\* the ids of the Cell objects in the store
StoreIds == Range(cells) \ {Hole}

\* the end of a step: the state E0 the handlers left, collected
Finish(E0, counted) ==
  \E X \in {E0} :
  \E ids \in {LiveIds(X)} :
  \E refs \in {LiveRefs(X, ids)} :
  \E key \in {RefKey(X, ids, refs)} :
  \E rank \in {RefRank(refs, key)} :
  \E E \in {Renumber(X, ids, refs, rank)} :
    /\ Commit(E)
    /\ ops' = IF counted /\ E # Cur THEN ops + 1 ELSE ops

\* a further user event is within the bounds.  The menu's handlers are
\* bound before the fetch of the notebook starts.
Ready == (loaded \/ ops < MaxEarlyOps) /\ ops < MaxOps

\* a user event; one that changes nothing is not counted
UserStep(E0) ==
  /\ Ready
  /\ Finish(E0, TRUE)
  /\ UNCHANGED loaded

\* a timer or the completion of an awaited call
SystemStep(E0) == Finish(E0, FALSE) /\ UNCHANGED loaded

Room == Cardinality(DOMAIN runs) < MaxInFlight

EngineInit ==
  /\ cells = << >>
  /\ cellObj = << >>
  /\ arrays = << >>
  /\ monacoInstances = << >>
  /\ cellCounter = 0
  /\ cellClipboard = << >>
  /\ focusedCellId = NoCell
  /\ persistentScope = << >>
  /\ runs = << >>
  /\ runAlls = << >>
  /\ timers = {}
  /\ children = << CopyrightEl, InserterEl >>
  /\ loaded = FALSE
  /\ finished = << >>
  /\ finishedAll = << >>
  /\ observed = {}
  /\ written = << >>
  /\ ops = 0
  /\ raised = FALSE

Init ==
  /\ EngineInit
  /\ rtCells = << >>
  /\ rtContent = << >>
  /\ rtParsed = << >>
  /\ rtPhase = "off"
  /\ rtBlocks = << >>

Load ==
  /\ ~loaded
  /\ loaded' = TRUE
  /\ \E fetchOk \in BOOLEAN, nb \in Notebooks :
       /\ cellCounter + (IF Len(nb) = 0 THEN 1 ELSE Len(nb)) <= MaxCells
       /\ (~fetchOk => nb = << >>)
       /\ Finish(LoadNotebook(Cur, fetchOk, nb), FALSE)

\* the run button of a cell, or a double click on a rendered text cell
ClickRun == Ready /\ Room /\ \E id \in Created : UserStep(RunCell(Cur, id, 0))

TimerFires ==
  \E id \in timers :
    SystemStep(RunCell([Cur EXCEPT !.timers = @ \ {id}], id, 0))

ClickRunAll == Ready /\ Room /\ UserStep(RunAllCells(Cur))

ClickRestart == UserStep(Restart(Cur))

ClickRestartAndRunAll == Ready /\ Room /\ UserStep(RestartAndRunAll(Cur))

\* the capability a suspended run awaits completes
Resume ==
  \E rid \in DOMAIN runs :
    SystemStep(ResumeRun(Cur, rid))

FocusEditor ==
  /\ Ready
  /\ \E id \in StoreIds :
    /\ cellObj[id].mode # "render"
    /\ UserStep([Cur EXCEPT !.focus = id])

\* the user types in an editor, which has or gains the text focus
Edit ==
  /\ Ready
  /\ \E id \in StoreIds, t \in Typed :
    /\ cellObj[id].mode # "render"
    /\ t # monacoInstances[id]
    /\ UserStep(OnDidChangeModelContent([Cur EXCEPT !.focus = id], id, t))

ClickDelete == Ready /\ \E id \in Created : UserStep(DeleteCell(Cur, id))

ClickMove ==
  /\ Ready
  /\ \E id \in Created, d \in {"up", "down"} : UserStep(MoveCell(Cur, id, d))

\* the notebook element's children are the copyright cell, the inserter and
\* the cells' elements: Sortable counts them all; only a cell's element has a
\* drag handle
Drag ==
  /\ Ready /\ loaded
  /\ \E o \in 0..(Len(children) - 1), n \in 0..(Len(children) - 1) :
    /\ children[o + 1] \in DOMAIN monacoInstances
    /\ UserStep(SortableDrop(Cur, o, n))

\* the inserter's buttons: the gap index is kept in the element's dataset
ClickInserter ==
  /\ Ready /\ loaded
  /\ cellCounter < MaxCells
  /\ \E type \in {"js", "md"}, index \in 0..(Len(children) - 1) :
    /\ UserStep(AddCellNew(Cur, "", type, FALSE, << >>, index))

ClickInsert ==
  /\ Ready
  /\ cellCounter < MaxCells
  /\ \E type \in {"js", "md"}, above \in BOOLEAN :
    /\ UserStep(IF above THEN InsertCellAbove(Cur, type) ELSE InsertCellBelow(Cur, type))

ClickCut == UserStep(CutCell(Cur))

ClickCopy == UserStep(CopyCell(Cur))

ClickPaste == Ready /\ cellCounter < MaxCells /\ UserStep(PasteCell(Cur))

Next ==
  \/ Load
  \/ ClickRun
  \/ TimerFires
  \/ ClickRunAll
  \/ ClickRestart
  \/ ClickRestartAndRunAll
  \/ Resume
  \/ FocusEditor
  \/ Edit
  \/ ClickDelete
  \/ ClickMove
  \/ Drag
  \/ ClickInserter
  \/ ClickInsert
  \/ ClickCut
  \/ ClickCopy
  \/ ClickPaste

Spec == Init /\ [][Next]_vars

\* ==================================================== persisted format
\* Strings are sequences of characters.
CODE_STARTS == << "/", "/", " ", "[", "C", "O", "D", "E", " ", "S", "T", "A", "R", "T", "S", "]" >>
CODE_ENDS == << "/", "/", " ", "[", "C", "O", "D", "E", " ", "E", "N", "D", "S", "]" >>
MD_OPENER == << "/", "*", " ", "M", "a", "r", "k", "d", "o", "w", "n" >>
OUTPUT_OPENER == << "/", "*", " ", "O", "u", "t", "p", "u", "t" >>
RENDER == << "(", "r", "e", "n", "d", "e", "r", ")" >>
CLOSE == << "*", "/" >>
MD_MARKER == MD_OPENER
MD_RENDER_MARKER == << "/", "*", " ", "M", "a", "r", "k", "d", "o", "w", "n", " ", "(", "r", "e", "n", "d", "e", "r", ")" >>
OUTPUT_MARKER == << "/", "*", " ", "O", "u", "t", "p", "u", "t", " ", "S", "a", "m", "p", "l", "e" >>
IMG_HEAD == << "<", "i", "m", "g", " ", "s", "r", "c", "=", "\"" >>
IMG_TAIL == << "\"", " ", "s", "t", "y", "l", "e", "=", "\"", "h", "e", "i", "g", "h", "t", ":", "a", "u", "t", "o", ";", " ", "w", "i", "d", "t", "h", ":", "1", "0", "0", "%", ";", "\"", " ", "/", ">" >>
DATA_PREFIX == << "d", "a", "t", "a", ":" >>
BASE64 == << ";", "b", "a", "s", "e", "6", "4", "," >>
NL == << "\n" >>

IsSpace(c) == c \in {" ", "\n", "\t"}

TrimStart(s) ==
  IF \A i \in 1..Len(s) : IsSpace(s[i]) THEN << >>
  ELSE SubSeq(s, CHOOSE i \in 1..Len(s) :
                   ~IsSpace(s[i]) /\ \A j \in 1..(i - 1) : IsSpace(s[j]),
              Len(s))

TrimEnd(s) ==
  IF \A i \in 1..Len(s) : IsSpace(s[i]) THEN << >>
  ELSE SubSeq(s, 1, CHOOSE i \in 1..Len(s) :
                      ~IsSpace(s[i]) /\ \A j \in (i + 1)..Len(s) : IsSpace(s[j]))

\* String.prototype.trim
Trim(s) == TrimEnd(TrimStart(s))

StartsWith(s, p) == Len(s) >= Len(p) /\ SubSeq(s, 1, Len(p)) = p

EndsWith(s, p) == Len(s) >= Len(p) /\ SubSeq(s, Len(s) - Len(p) + 1, Len(s)) = p

Includes(s, p) == \E i \in 1..(Len(s) - Len(p) + 1) : SubSeq(s, i, i + Len(p) - 1) = p

\* content.split('\n')
SplitLines(s) ==
  LET breaks == { i \in 1..Len(s) : s[i] = "\n" }
      \* the position of the k-th line break; 0 and Len(s) + 1 close the ends
      at == [ k \in 0..(Cardinality(breaks) + 1) |->
                IF k = 0 THEN 0
                ELSE IF k > Cardinality(breaks) THEN Len(s) + 1
                ELSE CHOOSE i \in breaks :
                       Cardinality({ j \in breaks : j <= i }) = k ]
  IN [ k \in 1..(Cardinality(breaks) + 1) |-> SubSeq(s, at[k - 1] + 1, at[k] - 1) ]

\* lines.join('\n')
RECURSIVE JoinLines(_)
JoinLines(lines) ==
  IF lines = << >> THEN << >>
  ELSE IF Len(lines) = 1 THEN lines[1]
  ELSE lines[1] \o NL \o JoinLines(Tail(lines))

\* s += (s ? '\n' : '') + line
AddLine(s, line) == s \o (IF s # << >> THEN NL ELSE << >>) \o line

\* line.replace(/\*\/\s*$/, '') of a line whose trimmed form ends with the close token
StripClose(line) == SubSeq(TrimEnd(line), 1, Len(TrimEnd(line)) - Len(CLOSE))

\* ---------------------------------------------------- parseNotebookFile
AddJsCell(st) ==
  IF Len(st.jsCodeLines) > 0
  THEN [st EXCEPT
          !.cellsData = Append(@, [type |-> "js", code |-> Trim(JoinLines(st.jsCodeLines)),
                                   outputs |-> << >>]),
          !.jsCodeLines = << >>]
  ELSE st

AddMdCell(st) ==
  IF Trim(st.mdContent) # << >>
  THEN [st EXCEPT
          !.cellsData = Append(@, [type |-> "md", code |-> Trim(st.mdContent),
                                   mode |-> st.mdMode]),
          !.mdContent = << >>]
  ELSE st

\* index of the last js cell of cellsData, 0 when there is none
LastJsCell(cellsData) ==
  IF \E i \in 1..Len(cellsData) : cellsData[i].type = "js"
  THEN CHOOSE i \in 1..Len(cellsData) :
         /\ cellsData[i].type = "js"
         /\ \A j \in (i + 1)..Len(cellsData) : cellsData[j].type # "js"
  ELSE 0

AddOutput(st) ==
  IF Trim(st.outputContent) # << >> /\ Len(st.cellsData) > 0
  THEN LET i == LastJsCell(st.cellsData)
       IN [st EXCEPT
             !.cellsData = IF i # 0
                           THEN [@ EXCEPT ![i].outputs =
                                   Append(@, [type |-> "log",
                                              data |-> Trim(st.outputContent)])]
                           ELSE @,
             !.outputContent = << >>]
  ELSE st

\* the body of lines.forEach
ParseLine(st, line) ==
  LET trimmed == Trim(line)
  IN IF trimmed = CODE_STARTS
     THEN [AddOutput(AddMdCell(st)) EXCEPT
             !.inCodeBlock = TRUE, !.inMdBlock = FALSE, !.inOutputBlock = FALSE]
     ELSE IF trimmed = CODE_ENDS
     THEN [AddJsCell(st) EXCEPT !.inCodeBlock = FALSE]
     ELSE IF StartsWith(trimmed, MD_OPENER)
     THEN [AddOutput(AddJsCell(st)) EXCEPT
             !.mdMode = IF Includes(trimmed, RENDER) THEN "render" ELSE "edit",
             !.inMdBlock = TRUE, !.inCodeBlock = FALSE, !.inOutputBlock = FALSE]
     ELSE IF StartsWith(trimmed, OUTPUT_OPENER)
     THEN [AddMdCell(AddJsCell(st)) EXCEPT
             !.inOutputBlock = TRUE, !.inCodeBlock = FALSE, !.inMdBlock = FALSE]
     ELSE IF EndsWith(trimmed, CLOSE)
     THEN LET contentLine == Trim(StripClose(line))
              st1 == IF contentLine = << >> THEN st
                     ELSE IF st.inMdBlock
                     THEN [st EXCEPT !.mdContent = AddLine(@, contentLine)]
                     ELSE IF st.inOutputBlock
                     THEN [st EXCEPT !.outputContent = AddLine(@, contentLine)]
                     ELSE st
              st2 == IF st.inMdBlock THEN AddMdCell(st1)
                     ELSE IF st.inOutputBlock THEN AddOutput(st1)
                     ELSE st1
          IN [st2 EXCEPT !.inMdBlock = FALSE, !.inOutputBlock = FALSE]
     ELSE IF st.inCodeBlock THEN [st EXCEPT !.jsCodeLines = Append(@, line)]
     ELSE IF st.inMdBlock THEN [st EXCEPT !.mdContent = AddLine(@, line)]
     ELSE IF st.inOutputBlock THEN [st EXCEPT !.outputContent = AddLine(@, line)]
     ELSE st

RECURSIVE ParseLines(_, _)
ParseLines(st, lines) ==
  IF lines = << >> THEN st
  ELSE LET next == ParseLine(st, Head(lines))
       \* the callback has returned before forEach hands over the next line
       IN IF DOMAIN next = DOMAIN st THEN ParseLines(next, Tail(lines)) ELSE next

ParseStart ==
  [ cellsData |-> << >>, jsCodeLines |-> << >>, mdContent |-> << >>,
    outputContent |-> << >>, inCodeBlock |-> FALSE, inMdBlock |-> FALSE,
    inOutputBlock |-> FALSE, mdMode |-> "edit" ]

ParseNotebookFile(content) ==
  AddOutput(AddMdCell(AddJsCell(
    ParseLines(ParseStart, SplitLines(content))))).cellsData

\* ----------------------------------------------------- downloadNotebook
RECURSIVE EscapeHtml(_)
EscapeHtml(s) ==
  IF s = << >> THEN << >>
  ELSE (CASE Head(s) = "<" -> << "&", "l", "t", ";" >>
          [] Head(s) = ">" -> << "&", "g", "t", ";" >>
          [] Head(s) = "&" -> << "&", "a", "m", "p", ";" >>
          [] Head(s) = "\"" -> << "&", "q", "u", "o", "t", ";" >>
          [] Head(s) = "'" -> << "&", "#", "x", "2", "7", ";" >>
          [] OTHER -> << Head(s) >>) \o EscapeHtml(Tail(s))

\* imgSrc.replace(/[<>"']/g, '')
StripSrc(s) == SelectSeq(s, LAMBDA c : c \notin {"<", ">", "\"", "'"})

\* a variant that writes the same opener for both modes
MdMarker_OneOpener(mode) == MD_MARKER

MdMarker(mode) == IF mode = "render" THEN MD_RENDER_MARKER ELSE MD_MARKER

OutputText(output) ==
  IF output.type = "image"
  THEN IMG_HEAD
         \o StripSrc(IF StartsWith(output.data, DATA_PREFIX) THEN output.data
                     ELSE DATA_PREFIX \o output.mime \o BASE64 \o output.data)
         \o IMG_TAIL \o NL \o NL
  ELSE EscapeHtml(output.data) \o NL \o NL

RECURSIVE OutputsText(_)
OutputsText(outputs) ==
  IF outputs = << >> THEN << >>
  ELSE OutputText(Head(outputs)) \o OutputsText(Tail(outputs))

\* the text one cell adds to content; code is the text of the cell's editor
CellText(cell) ==
  IF cell.type = "md"
  THEN MdMarker(cell.mode) \o NL \o cell.code \o NL \o CLOSE \o NL \o NL
  ELSE CODE_STARTS \o NL \o cell.code \o NL \o CODE_ENDS \o NL \o NL
         \o (IF Len(cell.outputs) > 0
             THEN OUTPUT_MARKER \o NL \o NL \o OutputsText(cell.outputs)
                    \o CLOSE \o NL \o NL
             ELSE << >>)

RECURSIVE CellsText(_)
CellsText(cs) == IF cs = << >> THEN << >> ELSE CellText(Head(cs)) \o CellsText(Tail(cs))

\* the content of the downloaded blob
DownloadNotebook(cs) == Trim(CellsText(cs))

\* ------------------------------------------- the round trip as a machine
\* cells of one document handed to downloadNotebook
MaxDocCells == 2

DocTexts == { << >>, << "a", "\n", "b" >>, << " ", "a" >>, << "*", "/" >> }

DocOutputs ==
  { << >>,
    << [type |-> "log", data |-> << "a" >>] >>,
    << [type |-> "log", data |-> << "<" >>] >>,
    << [type |-> "log", data |-> << "a" >>], [type |-> "error", data |-> << "b" >>] >>,
    << [type |-> "image", data |-> << "a" >>, mime |-> << "b" >>] >> }

DocCells ==
  { [type |-> "js", code |-> t, outputs |-> o] : t \in DocTexts, o \in DocOutputs }
    \cup { [type |-> "md", code |-> t, mode |-> m] : t \in DocTexts, m \in {"edit", "render"} }

RECURSIVE Docs(_)
Docs(n) ==
  IF n = 0 THEN { << >> }
  ELSE Docs(n - 1) \cup { Append(d, c) : d \in { x \in Docs(n - 1) : Len(x) = n - 1 },
                                          c \in DocCells }

InitFormat ==
  /\ EngineInit
  /\ rtCells \in Docs(MaxDocCells)
  /\ rtContent = << >>
  /\ rtParsed = << >>
  /\ rtPhase = "cells"
  /\ rtBlocks = << >>

Download ==
  /\ rtPhase = "cells"
  /\ rtContent' = DownloadNotebook(rtCells)
  /\ rtPhase' = "content"
  /\ UNCHANGED << rtCells, rtParsed, rtBlocks >>
  /\ UNCHANGED engineVars

Parse ==
  /\ rtPhase = "content"
  /\ rtParsed' = ParseNotebookFile(rtContent)
  /\ rtPhase' = "parsed"
  /\ UNCHANGED << rtCells, rtContent, rtBlocks >>
  /\ UNCHANGED engineVars

NextFormat ==
  \/ Download
  \/ Parse

SpecFormat == InitFormat /\ [][NextFormat]_vars

\* ------------------------------------------------ files given to the parser
\* blocks of one file handed to parseNotebookFile
MaxBlocks == 4

BlockKinds == {"js", "md", "out"}

RECURSIVE BlockLists(_)
BlockLists(n) ==
  IF n = 0 THEN { << >> }
  ELSE BlockLists(n - 1)
         \cup { Append(b, k) : b \in { x \in BlockLists(n - 1) : Len(x) = n - 1 },
                                k \in BlockKinds }

Digits == << "1", "2", "3", "4", "5", "6", "7", "8", "9" >>

\* the text of the block at position k: its kind's letter and its position
BlockText(kinds, k) ==
  << (CASE kinds[k] = "js" -> "c" [] kinds[k] = "md" -> "m" [] OTHER -> "o"), Digits[k] >>

\* the lines of a block, laid out as downloadNotebook writes them
BlockLines(kinds, k) ==
  CASE kinds[k] = "js" ->
         CODE_STARTS \o NL \o BlockText(kinds, k) \o NL \o CODE_ENDS \o NL \o NL
    [] kinds[k] = "md" ->
         MD_MARKER \o NL \o BlockText(kinds, k) \o NL \o CLOSE \o NL \o NL
    [] OTHER ->
         OUTPUT_MARKER \o NL \o NL \o BlockText(kinds, k) \o NL \o NL
           \o CLOSE \o NL \o NL

RECURSIVE FileText(_, _)
FileText(kinds, k) ==
  IF k > Len(kinds) THEN << >> ELSE BlockLines(kinds, k) \o FileText(kinds, k + 1)

InitParse ==
  /\ EngineInit
  /\ rtBlocks \in BlockLists(MaxBlocks)
  /\ rtCells = << >>
  /\ rtContent = Trim(FileText(rtBlocks, 1))
  /\ rtParsed = << >>
  /\ rtPhase = "content"

SpecParse == InitParse /\ [][Parse]_vars

\* =============================================================== claims
JsCells == SelectSeq(cells, LAMBDA id : id # Hole /\ cellObj[id].type = "js")

ErrorsOf(outs) == SelectSeq(outs, LAMBDA o : o.type = "error")

\* C1: every run of a code cell ends without raising to its caller, and a
\* failing script (runtime throw or compile failure) adds exactly one Error
\* output to the cell's outputs.
C1_RunNeverRaises ==
  \A i \in 1..Len(finished) :
    LET f == finished[i]
    IN /\ f.outcome = "resolved"
       /\ Failure(f.code) # "none" =>
            /\ Len(ErrorsOf(f.appended)) = 1
            /\ Len(ErrorsOf(arrays[cellObj[f.cell].outputs])) = 1

\* C2: in a run-all, every code cell after a cell whose run failed is still run.
C2_RunAllGoesOn ==
  \A n \in 1..Len(finishedAll) :
    LET e == finishedAll[n]
    IN e.clean =>
         \A i \in 1..Len(e.log) :
           Failure(e.log[i].code) # "none" =>
             \A j \in 1..Len(cells) :
               ( /\ cells[j] # Hole
                 /\ cellObj[cells[j]].type = "js"
                 /\ \E p \in 1..Len(cells) : cells[p] = e.log[i].cell /\ p < j )
               => \E k \in (i + 1)..Len(e.log) : e.log[k].cell = cells[j]

\* C3: at most one code-cell run is in flight.
C3_SingleFlight == Cardinality(DOMAIN runs) <= 1

\* C4: a run-all during which the store is not mutated runs the code cells in
\* document order, each exactly once and no text cell, and starts a cell's run
\* only after the run of the cell before it has completed.
C4_RunAllOrder ==
  /\ \A n \in 1..Len(finishedAll) :
       finishedAll[n].clean =>
         [ i \in 1..Len(finishedAll[n].log) |-> finishedAll[n].log[i].cell ] = JsCells
  /\ \A k \in DOMAIN runAlls :
       Cardinality({ rid \in DOMAIN runs : runs[rid].ra = k }) <= 1

\* C5: when a run of a code cell completes, the cell's outputs are exactly the
\* outputs that run appended, in append order.
C5_OutputsOfThisRun ==
  \A i \in 1..Len(finished) :
    arrays[cellObj[finished[i].cell].outputs] = finished[i].appended

\* C6: a confirmed restart leaves the scope without keys and every code cell
\* with empty outputs and a cleared execution state; text cells' modes, the
\* cell order and the ids are unchanged.
C6_RestartClears ==
  [][ ClickRestart =>
        /\ DOMAIN persistentScope' = {}
        /\ cells' = cells
        /\ \A id \in StoreIds :
             IF cellObj[id].type = "js"
             THEN /\ arrays'[cellObj'[id].outputs] = << >>
                  /\ cellObj'[id].isExecuted # "true"
                  /\ cellObj'[id].lastExecutedContent = Undef
             ELSE cellObj'[id].mode = cellObj[id].mode ]_vars

\* C7: the scope holds exactly what code-cell runs wrote since the last
\* restart, whatever other operations happened, and every read by a run
\* observes that value (absent when nothing was written since the restart).
C7_ScopePersistence ==
  /\ persistentScope = written
  /\ \A o \in observed : o.seen = o.expected

C7_Witness == \E o \in observed : o.seen = "1" /\ o.expected = "1"

\* C8: a content change of an executed cell to a text other than the last
\* executed one clears the execution state, and a cell becomes executed only
\* by a run of it that completes in that step (not by editing the text back).
C8_Staleness ==
  [][ /\ \A id \in StoreIds \cap StoreIds' :
           ( /\ monacoInstances'[id] # monacoInstances[id]
             /\ cellObj[id].isExecuted = "true"
             /\ cellObj[id].lastExecutedContent # monacoInstances'[id] )
           => /\ cellObj'[id].isExecuted = "false"
              /\ cellObj'[id].lastExecutedContent = Undef
      /\ \A id \in StoreIds' :
           ( /\ cellObj'[id].isExecuted = "true"
             /\ ~(id \in StoreIds /\ cellObj[id].isExecuted = "true") )
           => \E i \in 1..Len(finished') :
                finished'[i].cell = id /\ finished'[i].outcome = "resolved" ]_vars

\* C9: when a run of a code cell completes, by success or by any failure, and
\* the cell is in the store, the cell is marked executed with the text read
\* when the run started.
C9_ExecutedOnCompletion ==
  \A i \in 1..Len(finished) :
    finished[i].cell \in StoreIds =>
      /\ cellObj[finished[i].cell].isExecuted = "true"
      /\ cellObj[finished[i].cell].lastExecutedContent = finished[i].code

\* C10: parse(serialize(cells)) = cells for cells whose texts and outputs
\* contain no marker token: same kinds, texts, modes and outputs.
Markers == { CODE_STARTS, CODE_ENDS, MD_OPENER, OUTPUT_OPENER, CLOSE }

NoMarker(s) == \A m \in Markers : ~Includes(s, m)

MarkerFree(cs) ==
  \A i \in 1..Len(cs) :
    /\ NoMarker(cs[i].code)
    /\ cs[i].type = "js" =>
         \A j \in 1..Len(cs[i].outputs) : NoMarker(cs[i].outputs[j].data)

C10_RoundTrip ==
  (rtPhase = "parsed" /\ MarkerFree(rtCells)) => rtParsed = rtCells

\* C10 as amended: the round trip holds when, besides, no text has leading or
\* trailing whitespace, no text cell is empty, and every code cell has no
\* output or one Log output whose text is not empty, has no leading or
\* trailing whitespace and none of the characters < > & " '.
Plain(s) == Trim(s) = s /\ \A i \in 1..Len(s) : s[i] \notin {"<", ">", "&", "\"", "'"}

Faithful(cs) ==
  \A i \in 1..Len(cs) :
    /\ Trim(cs[i].code) = cs[i].code
    /\ cs[i].type = "md" => cs[i].code # << >>
    /\ cs[i].type = "js" =>
         \/ cs[i].outputs = << >>
         \/ /\ Len(cs[i].outputs) = 1
            /\ cs[i].outputs[1].type = "log"
            /\ cs[i].outputs[1].data # << >>
            /\ Plain(cs[i].outputs[1].data)

C10_RoundTripAmended ==
  (rtPhase = "parsed" /\ MarkerFree(rtCells) /\ Faithful(rtCells))
    => rtParsed = rtCells

C10_Witness ==
  /\ rtPhase = "parsed"
  /\ MarkerFree(rtCells)
  /\ Faithful(rtCells)
  /\ rtParsed = rtCells
  /\ \E i \in 1..Len(rtCells) : rtCells[i].type = "js" /\ rtCells[i].outputs # << >>
  /\ \E i \in 1..Len(rtCells) : rtCells[i].type = "md" /\ rtCells[i].mode = "render"

\* C11: the store has no duplicate ids and as many elements as cells were
\* created and not deleted (an editor is registered by addCell and removed
\* by deleteCell, so these are the cells that have an editor).
C11_StoreInvariant ==
  /\ \A i, j \in 1..Len(cells) : i # j => cells[i] # cells[j]
  /\ Len(cells) = Cardinality(DOMAIN monacoInstances)

\* C12: a drag-reorder with equal indices or with an index outside the store
\* leaves the store as it is; otherwise the cell at oldIndex ends at newIndex
\* and the other cells keep their order.
C12_Reorder ==
  [][ \A o, n \in 0..(Len(children) - 1) :
        ( /\ loaded
          /\ children[o + 1] \in DOMAIN monacoInstances
          /\ UserStep(SortableDrop(Cur, o, n)) ) =>
          IF o = n \/ o >= Len(cells) \/ n >= Len(cells)
          THEN cells' = cells
          ELSE /\ cells'[n + 1] = cells[o + 1]
               /\ RemoveAt(cells', n + 1) = RemoveAt(cells, o + 1) ]_vars

\* C13: moving a cell of the store up or down exchanges it with its
\* neighbour on that side and leaves the other cells in place; at the
\* boundary (first cell up, last cell down) the store stays as it is.
C13_Move ==
  [][ \A id \in StoreIds, d \in {"up", "down"} :
        UserStep(MoveCell(Cur, id, d)) =>
          LET i == CHOOSE p \in 1..Len(cells) : cells[p] = id
              j == IF d = "up" THEN i - 1 ELSE i + 1
          IN IF j < 1 \/ j > Len(cells)
             THEN cells' = cells
             ELSE cells' = [cells EXCEPT ![i] = cells[j], ![j] = cells[i]] ]_vars

\* C14: a delete, move or run that names a cell no longer in the store raises
\* nothing and leaves the store, the clipboard, the scope and the cells'
\* outputs and execution states as they are.
C14_MissingIdNoOp ==
  [][ \A id \in Created \ StoreIds :
        ( \/ UserStep(DeleteCell(Cur, id))
          \/ \E d \in {"up", "down"} : UserStep(MoveCell(Cur, id, d))
          \/ UserStep(RunCell(Cur, id, 0)) )
        => /\ ~raised'
           /\ UNCHANGED << cells, cellClipboard, persistentScope, arrays, cellObj >> ]_vars

\* C15: in every state getFocusedCell returns the cell focusedCellId records
\* as the last focused one when it is in the store, otherwise the first cell
\* of the store, and no cell only when the store is empty.
C15_FindFocused ==
  LET g == GetFocusedCell(Cur)
  IN /\ ~Threw(g[1])
     /\ g[2] = IF focusedCellId \in StoreIds THEN focusedCellId
               ELSE IF Len(cells) > 0 THEN cells[1]
               ELSE NoCell

\* the cell findFocused is specified to return: the last focused cell when
\* it is in the store, otherwise the first cell, NoCell in an empty store
FocusedCell ==
  IF focusedCellId \in StoreIds THEN focusedCellId
  ELSE IF Len(cells) > 0 /\ cells[1] # Hole THEN cells[1]
  ELSE NoCell

\* C16: in every state with a focused cell, a cut removes exactly that cell
\* and a paste directly after it adds exactly one cell, with the text and the
\* kind of the cut cell, so that the store is as long as before the cut (one
\* cell, none, one cell in a one-cell document).
C16_CutThenPaste ==
  FocusedCell # NoCell =>
    LET c == FocusedCell
        afterCut == CutCell(Cur)
        afterPaste == PasteCell(Ok(afterCut))
        new == afterCut.counter
    IN /\ afterCut.cells = SelectSeq(cells, LAMBDA id : id # c)
       /\ Len(afterCut.cells) = Len(cells) - 1
       /\ Len(afterPaste.cells) = Len(cells)
       /\ SelectSeq(afterPaste.cells, LAMBDA id : id # new) = afterCut.cells
       /\ afterPaste.monaco[new] = monacoInstances[c]
       /\ afterPaste.obj[new].type = cellObj[c].type

\* the clipboard as a value: the cell record with the contents of its outputs,
\* and the text
ClipboardValue ==
  [ i \in 1..Len(cellClipboard) |->
      [ cellData |-> [cellClipboard[i].cellData EXCEPT !.outputs = arrays[@]],
        code |-> cellClipboard[i].code ] ]

\* C17: no step other than a cut or a copy changes the clipboard's record,
\* outputs or text (a paste and the runs of the source or of a pasted cell
\* included), and when a run of one cell goes on, the outputs of every other
\* cell stay as they are.
C17_ClipboardByValue ==
  [][ /\ ~(UserStep(CutCell(Cur)) \/ UserStep(CopyCell(Cur)))
           => ClipboardValue' = ClipboardValue
      /\ \A rid \in DOMAIN runs :
           (runs[rid].ra = 0 /\ SystemStep(ResumeRun(Cur, rid))) =>
             \A b \in (StoreIds \cap StoreIds') \ {runs[rid].cell} :
               arrays'[cellObj'[b].outputs] = arrays[cellObj[b].outputs] ]_vars

\* C18: a paste that adds a cell gives it an id no cell had before, the kind
\* of the clipboard's snapshot and, for a text cell, the mode of the snapshot
\* (rendered for a rendered snapshot, editing for an editing one).
C18_PasteIdKindMode ==
  [][ ( /\ cellClipboard # << >>
        /\ UserStep(PasteCell(Cur))
        /\ StoreIds' \ StoreIds # {} )
      => LET new == CHOOSE id \in StoreIds' \ StoreIds : TRUE
             snapshot == cellClipboard[1].cellData
         IN /\ new \notin Created
            /\ cellObj'[new].type = snapshot.type
            /\ snapshot.type = "md" => cellObj'[new].mode = snapshot.mode ]_vars

\* C19: a paste (with a clipboard) makes the store one cell longer, keeps the
\* cells it had in their order, and puts the new cell right after the focused
\* cell, or at the end when there is no focused cell.
C19_PastePosition ==
  [][ (cellClipboard # << >> /\ UserStep(PasteCell(Cur)))
      => /\ Len(cells') = Len(cells) + 1
         /\ \E new \in StoreIds' \ StoreIds :
              /\ SelectSeq(cells', LAMBDA id : id # new) = cells
              /\ \A p \in 1..Len(cells') :
                   cells'[p] = new =>
                     IF FocusedCell # NoCell
                     THEN p > 1 /\ cells'[p - 1] = FocusedCell
                     ELSE p = Len(cells') ]_vars

\* the cell of the parse result that the block at position p became
CellOfBlock(p) == Cardinality({ r \in 1..p : rtBlocks[r] # "out" })

\* the outputs of cell i of the parse result that hold the text t
Holding(i, t) ==
  IF rtParsed[i].type = "js"
  THEN { j \in 1..Len(rtParsed[i].outputs) : Includes(rtParsed[i].outputs[j].data, t) }
  ELSE {}

\* C20: the content of an output block is one Log output of the nearest code
\* cell parsed before the block, whatever text cells lie between, and is in
\* no other cell; with no code cell before the block it is in no cell at all.
C20_OutputAttach ==
  (rtPhase = "parsed" /\ rtBlocks # << >>) =>
    \A q \in 1..Len(rtBlocks) :
      rtBlocks[q] = "out" =>
        LET t == BlockText(rtBlocks, q)
            before == { p \in 1..(q - 1) : rtBlocks[p] = "js" }
        IN IF before = {}
           THEN \A i \in 1..Len(rtParsed) : Holding(i, t) = {}
           ELSE LET p == CHOOSE x \in before : \A y \in before : y <= x
                IN /\ CellOfBlock(p) <= Len(rtParsed)
                   /\ \A i \in 1..Len(rtParsed) :
                        IF i = CellOfBlock(p)
                        THEN /\ Cardinality(Holding(i, t)) = 1
                             /\ \A j \in Holding(i, t) :
                                  rtParsed[i].outputs[j] = [type |-> "log", data |-> t]
                        ELSE Holding(i, t) = {}

\* C21: parseNotebookFile produces no cell whose text is empty or only
\* whitespace and no output whose content is empty or only whitespace.
C21_NoEmptyParsed ==
  rtPhase = "parsed" =>
    \A i \in 1..Len(rtParsed) :
      /\ Trim(rtParsed[i].code) # << >>
      /\ rtParsed[i].type = "js" =>
           \A j \in 1..Len(rtParsed[i].outputs) :
             Trim(rtParsed[i].outputs[j].data) # << >>

\* a line the parser takes for a marker
MarkerLine(line) ==
  \/ Trim(line) \in {CODE_STARTS, CODE_ENDS}
  \/ StartsWith(Trim(line), MD_OPENER)
  \/ StartsWith(Trim(line), OUTPUT_OPENER)

\* C22: the text of a code cell is the lines strictly between its start
\* marker and its end marker, in order and unmodified, less the leading and
\* trailing blank lines of the block; no line that is not a block opener is
\* dropped.  Stated for a file that is one code block.
C22_CodeVerbatim ==
  LET lines == SplitLines(rtContent)
      BlankLine(line) == \A i \in 1..Len(line) : IsSpace(line[i])
      \* a block's lines less its leading and trailing blank lines
      StripBlankLines(ls) ==
        IF \A k \in 1..Len(ls) : BlankLine(ls[k]) THEN << >>
        ELSE SubSeq(ls,
                    CHOOSE k \in 1..Len(ls) :
                      ~BlankLine(ls[k]) /\ \A j \in 1..(k - 1) : BlankLine(ls[j]),
                    CHOOSE k \in 1..Len(ls) :
                      ~BlankLine(ls[k]) /\ \A j \in (k + 1)..Len(ls) : BlankLine(ls[j]))
      \* the file is one code block with a line that is not blank
      oneCodeBlock ==
        /\ Len(lines) >= 3
        /\ lines[1] = CODE_STARTS
        /\ lines[Len(lines)] = CODE_ENDS
        /\ \A k \in 2..(Len(lines) - 1) : ~MarkerLine(lines[k])
        /\ \E k \in 2..(Len(lines) - 1) : ~BlankLine(lines[k])
  IN (rtPhase = "parsed" /\ oneCodeBlock) =>
       rtParsed =
         << [type |-> "js",
             code |-> JoinLines(StripBlankLines(SubSeq(lines, 2, Len(lines) - 1))),
             outputs |-> << >>] >>

\* ------------------------------------------- lines given to the parser
\* lines of one file handed to parseNotebookFile
MaxLines == 4

RECURSIVE LineLists(_)
LineLists(n) ==
  IF n = 0 THEN { << >> }
  ELSE LineLists(n - 1)
         \cup { Append(b, k) : b \in { x \in LineLists(n - 1) : Len(x) = n - 1 },
                                k \in {"cs", "ce", "md", "out", "close", "text"} }

\* the line at position k: a marker, or a text that names its position
LineText(kinds, k) ==
  CASE kinds[k] = "cs" -> CODE_STARTS
    [] kinds[k] = "ce" -> CODE_ENDS
    [] kinds[k] = "md" -> MD_MARKER
    [] kinds[k] = "out" -> OUTPUT_MARKER
    [] kinds[k] = "close" -> CLOSE
    [] OTHER -> << "t", Digits[k] >>

InitLines ==
  /\ EngineInit
  /\ rtBlocks \in LineLists(MaxLines)
  /\ rtCells = << >>
  /\ rtContent = JoinLines([ k \in 1..Len(rtBlocks) |-> LineText(rtBlocks, k) ])
  /\ rtParsed = << >>
  /\ rtPhase = "content"

SpecLines == InitLines /\ [][Parse]_vars

\* C23: after every line at most one block is open, and an opener read while
\* a block is open finalizes that block at that line: nothing of what it
\* accumulated is left pending for the block that starts.
C23_OpenerFinalizes ==
  rtPhase = "parsed" =>
    LET lines == SplitLines(rtContent)
    IN \A n \in 1..Len(lines) :
         LET before == ParseLines(ParseStart, SubSeq(lines, 1, n - 1))
             after == ParseLine(before, lines[n])
         IN /\ Cardinality({ f \in {"inCodeBlock", "inMdBlock", "inOutputBlock"} :
                              after[f] }) <= 1
            /\ (MarkerLine(lines[n]) /\ Trim(lines[n]) # CODE_ENDS) =>
                 /\ before.inCodeBlock => after.jsCodeLines = << >>
                 /\ before.inMdBlock => after.mdContent = << >>
                 /\ before.inOutputBlock => after.outputContent = << >>

\* C24: a run of a text cell flips its mode (edit to render, render to edit),
\* so a second run in a row returns the mode; it runs no script and leaves the
\* persistent scope and every cell's outputs and execution state unchanged.
C24_TextRunToggle ==
  [][ \A id \in StoreIds :
        (cellObj[id].type = "md" /\ UserStep(RunCell(Cur, id, 0))) =>
          /\ cellObj'[id].mode = IF cellObj[id].mode = "edit" THEN "render" ELSE "edit"
          /\ RunCell(Ok(RunCell(Cur, id, 0)), id, 0).obj[id].mode = cellObj[id].mode
          /\ persistentScope' = persistentScope
          /\ runs' = runs
          /\ finished' = << >>
          /\ StoreIds' = StoreIds
          /\ \A c \in StoreIds :
               /\ arrays'[cellObj'[c].outputs] = arrays[cellObj[c].outputs]
               /\ cellObj'[c].isExecuted = cellObj[c].isExecuted
               /\ cellObj'[c].lastExecutedContent = cellObj[c].lastExecutedContent ]_vars

\* C25: a content-change notification for a cell changes nothing but that
\* cell's execution state: its outputs and isOutputVisible, the other cells,
\* the cell order, the clipboard and the persistent scope stay as they are.
\* Stated of the handler's result for every cell and text, in every state
\* in which a user event can follow.
C25_ContentChangeFrame ==
  Ready =>
  \A id \in StoreIds, t \in Typed :
    \A E \in {OnDidChangeModelContent([Cur EXCEPT !.focus = id], id, t)} :
      /\ E.cells = cells
      /\ E.dom = children
      /\ E.scope = persistentScope
      /\ E.clip = cellClipboard
      /\ E.arr = arrays
      /\ \A c \in StoreIds :
           /\ E.obj[c].outputs = cellObj[c].outputs
           /\ E.obj[c].isOutputVisible = cellObj[c].isOutputVisible
           /\ c # id => E.obj[c] = cellObj[c] /\ E.monaco[c] = monacoInstances[c]

\* the text of a cell with outputs was changed: the execution state is
\* cleared and the outputs are still there and shown
C25_Witness ==
  \E id \in StoreIds :
    /\ cellObj[id].isExecuted = "false"
    /\ cellObj[id].isOutputVisible
    /\ arrays[cellObj[id].outputs] # << >>
    /\ monacoInstances[id] \in Typed
    /\ runs = << >>

\* C26: when the load ends the store is not empty: after a failed fetch or a
\* document without cells it holds exactly one code cell with empty text and
\* no outputs, otherwise the parsed cells in parsed order.
C26_LoadResult ==
  [][ \A fetchOk \in BOOLEAN, nb \in Notebooks :
        ( /\ ~loaded
          /\ loaded'
          /\ ~fetchOk => nb = << >>
          /\ Finish(LoadNotebook(Cur, fetchOk, nb), FALSE) ) =>
          /\ cells' # << >>
          /\ Hole \notin Range(cells')
          /\ IF nb = << >>
             THEN /\ Len(cells') = 1
                  /\ cellObj'[cells'[1]].type = "js"
                  /\ monacoInstances'[cells'[1]] = ""
                  /\ arrays'[cellObj'[cells'[1]].outputs] = << >>
             ELSE /\ Len(cells') = Len(nb)
                  /\ \A i \in 1..Len(nb) :
                       /\ cellObj'[cells'[i]].type = nb[i].type
                       /\ monacoInstances'[cells'[i]] = nb[i].code
                       /\ nb[i].type = "js" =>
                            arrays'[cellObj'[cells'[i]].outputs] = nb[i].outputs ]_vars

\* C27: in every reachable state the outputs of every text cell are empty.
C27_TextCellsNoOutputs ==
  \A id \in StoreIds :
    cellObj[id].type = "md" => arrays[cellObj[id].outputs] = << >>

\* a rendered text cell was copied and pasted, and the copy was rendered
C27_Witness ==
  /\ cellClipboard # << >>
  /\ \E a, b \in StoreIds :
       /\ a # b
       /\ cellObj[a].type = "md" /\ cellObj[a].mode = "render"
       /\ cellObj[b].type = "md" /\ cellObj[b].mode = "render"
       /\ arrays[cellObj[b].outputs] = << >>

\* C28: in every reachable state a cell marked executed has an editor text
\* equal to its lastExecutedContent, also when the text was edited while the
\* cell's run was suspended and the run completed afterwards.
C28_ExecutedTextIsLive ==
  \A id \in StoreIds :
    cellObj[id].isExecuted = "true" =>
      monacoInstances[id] = cellObj[id].lastExecutedContent

\* C29: load, insert (at an index or appended), paste, move up or down and
\* delete keep the order of the cells' elements in the view equal to the
\* order of the cells in the store: from a state where the orders agree each
\* of them leads to a state where they agree.
ViewOrder == SelectSeq(children, LAMBDA e : e \in StoreIds)

C29_ViewOrder ==
  [][ ( /\ ViewOrder = cells
        /\ \/ ~loaded /\ loaded'
           \/ \E type \in {"js", "md"}, index \in 0..(Len(children) - 1) :
                UserStep(AddCellNew(Cur, "", type, FALSE, << >>, index))
           \/ \E type \in {"js", "md"} :
                \/ UserStep(InsertCellAbove(Cur, type))
                \/ UserStep(InsertCellBelow(Cur, type))
           \/ UserStep(PasteCell(Cur))
           \/ \E id \in StoreIds, d \in {"up", "down"} : UserStep(MoveCell(Cur, id, d))
           \/ \E id \in StoreIds : UserStep(DeleteCell(Cur, id)) )
      => ViewOrder' = cells' ]_vars

\* C30: whatever inserts, deletes, moves and reorders happen while a run-all
\* is suspended inside a cell's run, every code cell that is in the store from
\* the start to the end of the run-all is run exactly once by it.
C30_RunAllUnderMutation ==
  \A n \in 1..Len(finishedAll) :
    \A id \in finishedAll[n].start \cap StoreIds :
      Cardinality({ i \in 1..Len(finishedAll[n].log) :
                      finishedAll[n].log[i].cell = id }) = 1

\* C31: a run that was in flight at a restart writes nothing into the
\* persistent scope and appends no output when it goes on after the restart.
\* Stated of the runs a user event or a timer started: when such a run goes
\* on, the scope and the outputs of every code cell of the store stay as the
\* restart and the runs started since have left them.
C31_RestartIsolation ==
  [][ \A rid \in DOMAIN runs :
        ( /\ runs[rid].old
          /\ runs[rid].ra = 0
          /\ SystemStep(ResumeRun(Cur, rid)) ) =>
          /\ persistentScope' = persistentScope
          /\ \A c \in StoreIds :
               cellObj[c].type = "js" =>
                 arrays'[cellObj'[c].outputs] = arrays[cellObj[c].outputs] ]_vars

====
